---- MODULE Spec2Model ----
(***************************************************************************)
(* A model of the transcript scoring engine of src/scorer.py               *)
(* (class TranscriptScorer): the rubric, the six criterion scorers, the    *)
(* semantic-similarity helper and the aggregation done by                  *)
(* score_transcript.                                                       *)
(*                                                                         *)
(* Text is modelled by TLA+ strings, on which Len, SubSeq and \o act as on *)
(* sequences of characters.  Numbers that are floats in the source are     *)
(* exact rationals here, records [n |-> numerator, d |-> denominator] in   *)
(* lowest terms with d > 0: the model does not see binary rounding.        *)
(***************************************************************************)
EXTENDS Integers, Sequences, FiniteSets, TLC

(***************************************************************************)
(* Rational arithmetic                                                     *)
(***************************************************************************)
Abs(x) == IF x < 0 THEN -x ELSE x

RECURSIVE Gcd(_, _)
Gcd(a, b) == IF b = 0 THEN a ELSE Gcd(b, a % b)

\* The rational n/d (d # 0) in lowest terms with a positive denominator.
Rat(n, d) ==
    LET g == Gcd(Abs(n), Abs(d))
        s == IF d < 0 THEN -1 ELSE 1
    IN  [n |-> (s * n) \div g, d |-> (s * d) \div g]

RInt(k) == [n |-> k, d |-> 1]
RAdd(x, y) == Rat(x.n * y.d + y.n * x.d, x.d * y.d)
RSub(x, y) == Rat(x.n * y.d - y.n * x.d, x.d * y.d)
RMul(x, y) == Rat(x.n * y.n, x.d * y.d)
RDiv(x, y) == Rat(x.n * y.d, x.d * y.n)
RLt(x, y) == x.n * y.d < y.n * x.d
RLe(x, y) == x.n * y.d <= y.n * x.d
RAbs(x) == [n |-> Abs(x.n), d |-> x.d]
RMax(x, y) == IF RLt(x, y) THEN y ELSE x
RMin(x, y) == IF RLt(y, x) THEN y ELSE x

\* Python's format(x, '.0f'): x rounded to the nearest integer, ties to even.
RoundHalfEven(x) ==
    LET fl == x.n \div x.d
        twice == 2 * (x.n - fl * x.d)
    IN  IF twice < x.d THEN fl
        ELSE IF twice > x.d THEN fl + 1
        ELSE IF fl % 2 = 0 THEN fl ELSE fl + 1

(***************************************************************************)
(* Python string operations                                                *)
(***************************************************************************)
Char(s, i) == SubSeq(s, i, i)

SetMin(S) == CHOOSE x \in S : \A y \in S : x <= y
SetMax(S) == CHOOSE x \in S : \A y \in S : y <= x

\* str.isspace for the characters that occur in the modelled transcripts.
IsSpace(c) == c \in {" ", "\t", "\n"}

\* str.strip(): leading and trailing whitespace removed.
strip(s) ==
    LET ink == {i \in 1..Len(s) : ~IsSpace(Char(s, i))}
    IN  IF ink = {} THEN "" ELSE SubSeq(s, SetMin(ink), SetMax(ink))

\* str.isalnum or '_': what the regular expression \w matches.
UpperCase == "ABCDEFGHIJKLMNOPQRSTUVWXYZ"
LowerCase == "abcdefghijklmnopqrstuvwxyz"
Digits == "0123456789_"

IndexIn(alphabet, c) ==
    LET at == {i \in 1..Len(alphabet) : Char(alphabet, i) = c}
    IN  IF at = {} THEN 0 ELSE SetMin(at)

IsWordChar(c) ==
    IndexIn(LowerCase, c) # 0 \/ IndexIn(UpperCase, c) # 0 \/ IndexIn(Digits, c) # 0

\* The two kinds of run a text is cut into: "token" (no whitespace inside)
\* and "word" (word characters only).
Inside(kind, c) == IF kind = "token" THEN ~IsSpace(c) ELSE IsWordChar(c)

\* The maximal runs of the given kind in s[lo..hi], left to right: those of
\* the two halves, the run that crosses the middle glued together.
RECURSIVE RunsBetween(_, _, _, _)
RunsBetween(s, kind, lo, hi) ==
    IF lo > hi THEN <<>>
    ELSE IF lo = hi
    THEN (IF Inside(kind, Char(s, lo)) THEN <<Char(s, lo)>> ELSE <<>>)
    ELSE LET mid == (lo + hi) \div 2
             left == RunsBetween(s, kind, lo, mid)
             right == RunsBetween(s, kind, mid + 1, hi)
         IN  IF Inside(kind, Char(s, mid)) /\ Inside(kind, Char(s, mid + 1))
             THEN SubSeq(left, 1, Len(left) - 1)
                      \o <<left[Len(left)] \o right[1]>>
                      \o Tail(right)
             ELSE left \o right

\* str.split() with no argument: the whitespace-delimited tokens.
split(s) == RunsBetween(s, "token", 1, Len(s))

\* re.findall(r'\b\w+\b', s): the maximal runs of word characters.
findall_words(s) == RunsBetween(s, "word", 1, Len(s))

\* seq[:k]
Take(seq, k) == SubSeq(seq, 1, IF Len(seq) < k THEN Len(seq) ELSE k)

\* sep.join(seq)
RECURSIVE join(_, _)
join(sep, seq) ==
    IF Len(seq) = 0 THEN ""
    ELSE IF Len(seq) = 1 THEN seq[1]
    ELSE LET h == Len(seq) \div 2
         IN  join(sep, SubSeq(seq, 1, h)) \o sep \o join(sep, SubSeq(seq, h + 1, Len(seq)))

LowerChar(c) ==
    LET i == IndexIn(UpperCase, c)
    IN  IF i = 0 THEN c ELSE Char(LowerCase, i)

\* str.lower()
RECURSIVE lower(_)
lower(s) ==
    IF Len(s) = 0 THEN ""
    ELSE IF Len(s) = 1 THEN LowerChar(s)
    ELSE LET h == Len(s) \div 2
         IN  lower(SubSeq(s, 1, h)) \o lower(SubSeq(s, h + 1, Len(s)))

\* Python's `sub in s`.
Contains(sub, s) ==
    \E i \in 1..(Len(s) - Len(sub) + 1) : SubSeq(s, i, i + Len(sub) - 1) = sub

\* str.count(sub): the non-overlapping occurrences, scanning left to right.
RECURSIVE CountFrom(_, _, _)
CountFrom(s, sub, from) ==
    LET occ == {i \in from..(Len(s) - Len(sub) + 1) :
                    SubSeq(s, i, i + Len(sub) - 1) = sub}
    IN  IF occ = {} THEN 0 ELSE 1 + CountFrom(s, sub, SetMin(occ) + Len(sub))

count(s, sub) == CountFrom(s, sub, 1)

\* [kw for kw in keywords if kw in text]: the keywords occurring in text, in
\* the order of the list.
RECURSIVE FoundIn(_, _)
FoundIn(keywords, text) ==
    IF Len(keywords) = 0 THEN <<>>
    ELSE (IF Contains(keywords[1], text) THEN <<keywords[1]>> ELSE <<>>)
             \o FoundIn(Tail(keywords), text)

Range(seq) == {seq[i] : i \in 1..Len(seq)}

(***************************************************************************)
(* The engine's state (TranscriptScorer), one scoring call in progress,    *)
(* and what the two collaborators answered during it                       *)
(***************************************************************************)
VARIABLES
    grammar_tool,           \* self.grammar_tool: "LanguageTool" or "None"
    rubric,                 \* self.rubric
    pc,                     \* position of the call inside score_transcript
    transcript,             \* the call's transcript, stripped
    duration_minutes,       \* the call's duration, a rational
    word_count,             \* local of score_transcript
    results,                \* the report being built, returned at the end
    total_weighted_score,   \* local of score_transcript
    total_weight,           \* local of score_transcript
    outcome,                \* "none", "returned" or "ZeroDivisionError"
    encode_result,          \* the embedding model's answer in this call
    check_result,           \* the grammar checker's answer in this call
    prev                    \* history: the last finished call

vars == <<grammar_tool, rubric, pc, transcript, duration_minutes, word_count,
          results, total_weighted_score, total_weight, outcome,
          encode_result, check_result, prev>>

(***************************************************************************)
(* The rubric                                                              *)
(***************************************************************************)
RubricTable ==
    [salutation |->
        [weight |-> 5,
         keywords |-> <<"hi", "hello", "good morning", "good afternoon",
                        "good evening", "good day">>],
     content_structure |->
        [weight |-> 20,
         keywords |->
            <<[element |-> "name",
               keywords |-> <<"name", "i am", "i'm", "myself">>],
              [element |-> "school_class",
               keywords |-> <<"school", "class", "grade", "studying", "student">>],
              [element |-> "family",
               keywords |-> <<"family", "father", "mother", "parents", "brother",
                              "sister", "siblings">>],
              [element |-> "location",
               keywords |-> <<"from", "live", "city", "town", "village", "place">>],
              [element |-> "hobbies",
               keywords |-> <<"hobby", "hobbies", "enjoy", "love", "like",
                              "interest", "passion", "free time">>]>>,
         order_keywords |-> <<"first", "firstly", "second", "secondly", "then",
                              "next", "finally", "lastly">>],
     speech_rate |->
        [weight |-> 10, ideal_wpm |-> 130, min_wpm |-> 111, max_wpm |-> 160],
     language_grammar |->
        [weight |-> 10],
     clarity |->
        [weight |-> 15,
         filler_words |-> <<"um", "uh", "like", "you know", "actually",
                            "basically", "right", "i mean", "well", "kind of",
                            "sort of">>],
     engagement |->
        [weight |-> 15,
         positive_words |-> <<"happy", "excited", "passionate", "love", "enjoy",
                              "great", "wonderful", "amazing", "excellent",
                              "enthusiastic">>]]

\* A malformed rubric: the same table with every weight 0.
ZeroWeightRubric ==
    [k \in DOMAIN RubricTable |-> [RubricTable[k] EXCEPT !.weight = 0]]

\* _initialize_rubric returns the table; __init__ stores it unchecked.
_initialize_rubric == RubricTable

\* sum([criteria['weight'] for criteria in self.rubric.values()])
RECURSIVE SumWeights(_, _)
SumWeights(r, names) ==
    IF names = {} THEN 0
    ELSE LET k == CHOOSE k \in names : TRUE
         IN  r[k].weight + SumWeights(r, names \ {k})

sum_weights(r) == SumWeights(r, DOMAIN r)

(***************************************************************************)
(* _score_salutation                                                       *)
(***************************************************************************)
\* One token more than the source takes.
FirstWordsOneMore == 50 + 1

\* transcript.split()[:50]
FirstWords == 50

_score_salutation(text) ==
    LET criteria == rubric.salutation
        max_score == criteria.weight
        first_part == lower(join(" ", Take(split(text), FirstWords)))
        found_keywords == FoundIn(criteria.keywords, first_part)
        n == Len(found_keywords)
        score == IF n >= 3 THEN RInt(max_score)
                 ELSE IF n = 2 THEN RMul(RInt(max_score), Rat(8, 10))
                 ELSE IF n = 1 THEN RMul(RInt(max_score), Rat(6, 10))
                 ELSE RInt(0)
        feedback == IF n >= 3 THEN "Excellent greeting with multiple salutations."
                    ELSE IF n = 2 THEN "Good greeting present."
                    ELSE IF n = 1 THEN "Basic greeting present."
                    ELSE "No clear greeting found. Consider starting with 'Hello' or 'Good morning'."
    IN  [name |-> "Salutation",
         score |-> score,
         max_score |-> RInt(max_score),
         feedback |-> feedback,
         keywords_found |-> found_keywords]

(***************************************************************************)
(* _calculate_semantic_similarity                                          *)
(*                                                                         *)
(* enc is what self.model.encode and cosine_similarity did: [ok |-> FALSE] *)
(* when either raised, else the cosine of the two embeddings.              *)
(***************************************************************************)
_calculate_semantic_similarity(enc) ==
    IF enc.ok THEN RMax(RInt(0), enc.cos) ELSE Rat(1, 2)

(***************************************************************************)
(* _score_content_structure                                                *)
(***************************************************************************)
\* elements_found, as the sequence of [element, found] in dictionary order.
ElementsFound(groups, text) ==
    [i \in 1..Len(groups) |->
        [element |-> groups[i].element,
         found |-> \E j \in 1..Len(groups[i].keywords) :
                        Contains(groups[i].keywords[j], text)]]

\* all_keywords_found: the matched keywords of every group, group by group.
RECURSIVE AllKeywordsFound(_, _)
AllKeywordsFound(groups, text) ==
    IF Len(groups) = 0 THEN <<>>
    ELSE FoundIn(groups[1].keywords, text) \o AllKeywordsFound(Tail(groups), text)

RECURSIVE MissingElements(_)
MissingElements(found) ==
    IF Len(found) = 0 THEN <<>>
    ELSE (IF found[1].found THEN <<>> ELSE <<found[1].element>>)
             \o MissingElements(Tail(found))

\* The share of the groups that are missing, where the source takes the share
\* of those found.
element_score_of_missing(elements_count, groups) ==
    RMul(Rat(groups - elements_count, groups), Rat(7, 10))

\* element_score = (elements_count / len(criteria['keywords'])) * 0.7
element_score(elements_count, groups) ==
    RMul(Rat(elements_count, groups), Rat(7, 10))

_score_content_structure(text, enc) ==
    LET criteria == rubric.content_structure
        max_score == criteria.weight
        transcript_lower == lower(text)
        elements_found == ElementsFound(criteria.keywords, transcript_lower)
        all_keywords_found == AllKeywordsFound(criteria.keywords, transcript_lower)
        order_words == FoundIn(criteria.order_keywords, transcript_lower)
        has_structure == Len(order_words) > 0
        elements_count ==
            Cardinality({i \in 1..Len(elements_found) : elements_found[i].found})
        elements_score == element_score(elements_count, Len(criteria.keywords))
        structure_score == IF has_structure THEN Rat(3, 10) ELSE Rat(1, 10)
        semantic_score == _calculate_semantic_similarity(enc)
        final_ratio ==
            RDiv(RAdd(RAdd(elements_score, structure_score),
                      RMul(semantic_score, Rat(2, 10))),
                 Rat(12, 10))
        score == RMul(final_ratio, RInt(max_score))
        missing_elements == MissingElements(elements_found)
        feedback ==
            IF elements_count >= 4
            THEN <<"Excellent content coverage! Includes {}/5 key elements.",
                   elements_count>>
            ELSE IF elements_count >= 3
            THEN <<"Good content. Consider adding: {}.", missing_elements>>
            ELSE <<"Content needs improvement. Missing: {}.", missing_elements>>
    IN  [name |-> "Content & Structure",
         score |-> score,
         max_score |-> RInt(max_score),
         feedback |-> feedback,
         keywords_found |-> Take(all_keywords_found, 10),
         details |-> [elements_found |-> elements_count,
                      has_structure |-> has_structure,
                      \* f"{semantic_score:.2%}": hundredths of a percent
                      semantic_similarity |->
                          RoundHalfEven(RMul(semantic_score, RInt(10000)))]]

(***************************************************************************)
(* _score_speech_rate, for a duration other than 0 (the division by a zero *)
(* duration raises ZeroDivisionError: see the action speech_rate)          *)
(***************************************************************************)
\* The range without its two ends.
within_open_range(wpm, min_wpm, max_wpm) == RLt(min_wpm, wpm) /\ RLt(wpm, max_wpm)

\* min_wpm <= wpm <= max_wpm
within_range(wpm, min_wpm, max_wpm) == RLe(min_wpm, wpm) /\ RLe(wpm, max_wpm)

_score_speech_rate(text, duration) ==
    LET criteria == rubric.speech_rate
        max_score == RInt(criteria.weight)
        wpm == RDiv(RInt(Len(split(text))), duration)
        ideal_wpm == RInt(criteria.ideal_wpm)
        min_wpm == RInt(criteria.min_wpm)
        max_wpm == RInt(criteria.max_wpm)
        in_range == within_range(wpm, min_wpm, max_wpm)
        slow == ~in_range /\ RLt(wpm, min_wpm)
        score ==
            IF in_range
            THEN LET deviation == RDiv(RAbs(RSub(wpm, ideal_wpm)), ideal_wpm)
                 IN  RMul(max_score, RSub(RInt(1), RMul(deviation, Rat(5, 10))))
            ELSE IF slow
            THEN RMul(RMul(max_score, RDiv(wpm, min_wpm)), Rat(7, 10))
            ELSE RMul(RMul(max_score, RDiv(max_wpm, wpm)), Rat(7, 10))
        feedback ==
            IF in_range THEN <<"Good speech rate at {:.0f} WPM.", RoundHalfEven(wpm)>>
            ELSE IF slow
            THEN <<"Speech rate is slow ({:.0f} WPM). Try to speak a bit faster.",
                   RoundHalfEven(wpm)>>
            ELSE <<"Speech rate is fast ({:.0f} WPM). Try to slow down slightly.",
                   RoundHalfEven(wpm)>>
    IN  [name |-> "Speech Rate",
         score |-> score,
         max_score |-> max_score,
         feedback |-> feedback,
         wpm |-> wpm,
         details |-> [words_per_minute |-> RoundHalfEven(wpm),
                      ideal_range |-> <<criteria.min_wpm, criteria.max_wpm>>]]

(***************************************************************************)
(* _score_grammar                                                          *)
(*                                                                         *)
(* chk is what self.grammar_tool.check did, when it was called:            *)
(* [ok |-> FALSE] when it raised, else the number of matches it returned.  *)
(***************************************************************************)
\* A fallback that gives less than the top grammar tier.
default_grammar_score_low(max_score) == RMul(max_score, Rat(3, 10))

\* grammar_score = max_score * 0.6  # Default if tool not available
default_grammar_score(max_score) == RMul(max_score, Rat(6, 10))

_score_grammar(text, chk) ==
    LET criteria == rubric.language_grammar
        max_score == RInt(criteria.weight)
        wc == Len(split(text))
        default_score == default_grammar_score(max_score)
        checked == grammar_tool # "None" /\ chk.ok
        grammar_errors == IF checked THEN chk.matches ELSE 0
        error_rate == IF wc > 0
                      THEN RMul(Rat(grammar_errors, wc), RInt(100))
                      ELSE RInt(0)
        grammar_score ==
            IF ~checked THEN default_score
            ELSE IF RLt(error_rate, RInt(3)) THEN RMul(max_score, Rat(6, 10))
            ELSE IF RLt(error_rate, RInt(5)) THEN RMul(max_score, Rat(5, 10))
            ELSE IF RLt(error_rate, RInt(10)) THEN RMul(max_score, Rat(4, 10))
            ELSE RMul(max_score, Rat(3, 10))
        words == findall_words(lower(text))
        unique_words == Range(words)
        ttr == IF Len(words) > 0
               THEN Rat(Cardinality(unique_words), Len(words))
               ELSE RInt(0)
        vocab_score ==
            IF RLt(Rat(7, 10), ttr) THEN RMul(max_score, Rat(4, 10))
            ELSE IF RLt(Rat(5, 10), ttr) THEN RMul(max_score, Rat(35, 100))
            ELSE IF RLt(Rat(3, 10), ttr) THEN RMul(max_score, Rat(3, 10))
            ELSE RMul(max_score, Rat(2, 10))
        score == RAdd(grammar_score, vocab_score)
        grammar_feedback ==
            IF grammar_errors = 0 THEN <<"No grammar errors detected.">>
            ELSE IF grammar_errors <= 2
            THEN <<"{} minor grammar issues found.", grammar_errors>>
            ELSE <<"{} grammar errors detected. Review and correct.", grammar_errors>>
        ttr_percent == RoundHalfEven(RMul(ttr, RInt(10000)))
    IN  [name |-> "Language & Grammar",
         score |-> score,
         max_score |-> max_score,
         feedback |-> <<grammar_feedback, <<"Vocabulary richness: {:.2%}", ttr_percent>> >>,
         details |-> [grammar_errors |-> grammar_errors,
                      vocabulary_richness |-> ttr_percent,
                      unique_words |-> Cardinality(unique_words)]]

(***************************************************************************)
(* _score_clarity                                                          *)
(***************************************************************************)
\* The number of configured fillers that occur at all, each counted once.
FillerCountOnce(fillers, text) == Len(FoundIn(fillers, text))

RECURSIVE FillerCount(_, _)
FillerCount(fillers, text) ==
    IF Len(fillers) = 0 THEN 0
    ELSE count(text, fillers[1]) + FillerCount(Tail(fillers), text)

_score_clarity(text) ==
    LET criteria == rubric.clarity
        max_score == RInt(criteria.weight)
        transcript_lower == lower(text)
        wc == Len(split(text))
        filler_count == FillerCount(criteria.filler_words, transcript_lower)
        found_fillers == FoundIn(criteria.filler_words, transcript_lower)
        filler_ratio == IF wc > 0
                        THEN RMul(Rat(filler_count, wc), RInt(100))
                        ELSE RInt(0)
        tier == IF RLt(filler_ratio, RInt(2)) THEN 1
                ELSE IF RLt(filler_ratio, RInt(5)) THEN 2
                ELSE IF RLt(filler_ratio, RInt(10)) THEN 3
                ELSE 4
        score == IF tier = 1 THEN max_score
                 ELSE IF tier = 2 THEN RMul(max_score, Rat(8, 10))
                 ELSE IF tier = 3 THEN RMul(max_score, Rat(6, 10))
                 ELSE RMul(max_score, Rat(4, 10))
        feedback ==
            IF tier = 1 THEN <<"Excellent clarity with minimal filler words.">>
            ELSE IF tier = 2 THEN <<"Good clarity. Some filler words present.">>
            ELSE IF tier = 3
            THEN <<"Moderate use of filler words ({} found). Try to reduce them.",
                   filler_count>>
            ELSE <<"High use of filler words ({} found). Practice reducing them for better clarity.",
                   filler_count>>
    IN  [name |-> "Clarity",
         score |-> score,
         max_score |-> max_score,
         feedback |-> feedback,
         details |-> [filler_words_count |-> filler_count,
                      \* f"{filler_ratio:.1f}%": tenths of a percent
                      filler_word_ratio |-> RoundHalfEven(RMul(filler_ratio, RInt(10))),
                      fillers_found |-> IF Len(found_fillers) > 0
                                        THEN join(", ", found_fillers)
                                        ELSE "None"]]

(***************************************************************************)
(* _score_engagement                                                       *)
(***************************************************************************)
emotion_keywords ==
    <<"feel", "excited", "passionate", "enthusiastic", "proud", "grateful",
      "thankful">>

_score_engagement(text) ==
    LET criteria == rubric.engagement
        max_score == RInt(criteria.weight)
        transcript_lower == lower(text)
        found_positive == FoundIn(criteria.positive_words, transcript_lower)
        positive_count == Len(found_positive)
        has_emotion == Len(FoundIn(emotion_keywords, transcript_lower)) > 0
        positive_score == RMul(RMin(Rat(positive_count, 3), RInt(1)), Rat(7, 10))
        emotion_score == IF has_emotion THEN Rat(3, 10) ELSE Rat(1, 10)
        final_ratio == RAdd(positive_score, emotion_score)
        score == RMul(final_ratio, max_score)
        feedback ==
            IF positive_count >= 3 /\ has_emotion
            THEN "Highly engaging with positive and enthusiastic tone!"
            ELSE IF positive_count >= 2 THEN "Good engagement. Shows positive tone."
            ELSE IF positive_count >= 1
            THEN "Some engagement present. Consider expressing more enthusiasm."
            ELSE "Low engagement. Try to show more enthusiasm and positivity."
    IN  [name |-> "Engagement",
         score |-> score,
         max_score |-> max_score,
         feedback |-> feedback,
         keywords_found |-> found_positive,
         details |-> [positive_words |-> positive_count,
                      shows_emotion |-> has_emotion]]

(***************************************************************************)
(* Inputs and collaborator answers                                         *)
(***************************************************************************)
MaxHalfMinutes == 3     \* durations 1/2, 1, ... MaxHalfMinutes/2 minutes
SimSteps == 2           \* cosines -1, ..., -1/SimSteps, 0, 1/SimSteps, ..., 1
MaxMatches == 3         \* the grammar checker returns 0..MaxMatches matches
MaxPad == 50            \* the longest run of padding words before a greeting
MaxWords == 161         \* the longest transcript of the speech-rate inputs

\* score_transcript takes any number as the duration: the positive durations
\* a caller enters, zero, and negative ones.
PositiveDurations == {Rat(k, 2) : k \in 1..MaxHalfMinutes}
Durations == PositiveDurations \cup {RInt(0), Rat(-1, 2), Rat(-1, 100)}

\* k times the word w, separated by single spaces.
RECURSIVE Repeat(_, _)
Repeat(w, k) ==
    IF k = 0 THEN ""
    ELSE IF k = 1 THEN w
    ELSE LET h == k \div 2
         IN  Repeat(w, h) \o " " \o Repeat(w, k - h)

\* Raw transcripts as a caller passes them (not yet stripped).
Transcripts ==
    {"   ",
     "Hello everyone, myself Muskan, studying in class 8th B section from Christ Public School.",
     "  Hi, good morning! I am excited, I love my family and I enjoy cricket.\n",
     "um well you know like um I mean it is kind of right",
     "First my name is Ravi then I live in a town with my mother. It was great great great great."}

\* Pairs of calls: a repeated transcript, and one that differs from it.
TwiceInputs ==
    {<<"Hello, I am Ravi.", RInt(1)>>,
     <<"Hello, I am Ravi.", Rat(1, 2)>>,
     <<"we like to play", RInt(1)>>}

\* Transcripts that name 0 to 5 of the element groups, with and without an
\* ordering word.
ContentTranscripts ==
    {"it was a day",
     "my name is Ravi",
     "my name is Ravi, a student",
     "my name is Ravi, a student, my father is here",
     "my name is Ravi, a student, my father is from a city, I enjoy chess",
     "then it was a day",
     "first my name is Ravi, a student, finally my father",
     "first my name is Ravi, a student, my father is from a city, I enjoy chess"}

\* Transcripts of a given number of words, around the limits of the three
\* speech-rate regimes at one minute.
RateWordCounts == {0, 50, 110, 111, 112, 130, 159, 160, MaxWords}
RateTranscripts == {Repeat("a", k) : k \in RateWordCounts}
RateDurations == {RInt(1), Rat(1, 2), RInt(2)}

\* Greetings before, at and after the 50th whitespace-delimited token.
Padded(k, rest) == IF k = 0 THEN rest ELSE Repeat("x", k) \o " " \o rest
SalutationTranscripts ==
    {"Hello, hi there, good morning everyone",
     "this is me",
     "GOOD   EVENING all",
     "Good day and good afternoon",
     "we play cricket",
     ""}
    \cup {Padded(k, "Hello hi") : k \in {MaxPad - 2, MaxPad - 1, MaxPad}}
    \cup {Padded(k, "good\nmorning") : k \in {MaxPad - 2, MaxPad - 1, MaxPad}}

NotCalled == [called |-> FALSE, ok |-> FALSE, cos |-> RInt(0), matches |-> 0]

\* What self.model.encode / cosine_similarity can do: raise, or give a cosine.
EncodeOutcomes ==
    {[called |-> TRUE, ok |-> FALSE, cos |-> RInt(0), matches |-> 0]}
    \cup {[called |-> TRUE, ok |-> TRUE, cos |-> Rat(k, SimSteps), matches |-> 0] :
            k \in (-SimSteps)..SimSteps}

\* What self.grammar_tool.check can do: raise, or return a list of matches.
CheckOutcomes ==
    {[called |-> TRUE, ok |-> FALSE, cos |-> RInt(0), matches |-> 0]}
    \cup {[called |-> TRUE, ok |-> TRUE, cos |-> RInt(0), matches |-> m] :
            m \in 0..MaxMatches}

\* The collaborators are deterministic: asked again about the transcript of
\* the call before, they answer as they did then.
SameAsPrev == Len(prev) = 1 /\ prev[1].transcript = transcript

EncodeAnswers ==
    IF SameAsPrev /\ prev[1].encode_result.called
    THEN {prev[1].encode_result} ELSE EncodeOutcomes

CheckAnswers ==
    IF SameAsPrev /\ prev[1].check_result.called
    THEN {prev[1].check_result} ELSE CheckOutcomes

\* The locals of score_transcript while no call has set them.
NoReport == [overall_score |-> RInt(0), word_count |-> 0, criteria |-> <<>>]

(***************************************************************************)
(* __init__: the state after construction                                  *)
(***************************************************************************)
InitWith(tools) ==
    /\ grammar_tool \in tools
    /\ rubric = _initialize_rubric
    /\ pc = "idle"
    /\ transcript = ""
    /\ duration_minutes = RInt(0)
    /\ word_count = 0
    /\ results = NoReport
    /\ total_weighted_score = RInt(0)
    /\ total_weight = 0
    /\ outcome = "none"
    /\ encode_result = NotCalled
    /\ check_result = NotCalled
    /\ prev = <<>>

\* LanguageTool('en-US') either is built or raises, which leaves None.
Init == InitWith({"LanguageTool", "None"})

(***************************************************************************)
(* score_transcript, statement by statement                                *)
(***************************************************************************)
\* The call: the caller binds the two arguments; the locals of an earlier call
\* are gone.  With keep, the history variable prev records the call that just
\* returned.
score_transcript(text, duration, keep) ==
    /\ pc = "idle"
    /\ transcript' = text
    /\ duration_minutes' = duration
    /\ outcome' = "none"
    /\ encode_result' = NotCalled
    /\ check_result' = NotCalled
    /\ word_count' = 0
    /\ results' = NoReport
    /\ total_weighted_score' = RInt(0)
    /\ total_weight' = 0
    /\ pc' = "begin"
    /\ prev' = IF keep /\ outcome = "returned"
               THEN <<[transcript |-> transcript,
                       duration_minutes |-> duration_minutes,
                       grammar_tool |-> grammar_tool,
                       encode_result |-> encode_result,
                       check_result |-> check_result,
                       results |-> results]>>
               ELSE prev
    /\ UNCHANGED <<grammar_tool, rubric>>

\* Lines 76-87: the statements before the first scorer.
begin ==
    /\ pc = "begin"
    /\ transcript' = strip(transcript)
    /\ word_count' = Len(split(transcript'))
    /\ results' = [overall_score |-> RInt(0),
                   word_count |-> word_count',
                   criteria |-> <<>>]
    /\ total_weighted_score' = RInt(0)
    /\ total_weight' = sum_weights(rubric)
    /\ pc' = "salutation"
    /\ UNCHANGED <<grammar_tool, rubric, duration_minutes, outcome,
                   encode_result, check_result, prev>>

\* results['criteria'].append(r); total_weighted_score += r['score']
Accumulate(r, next_pc) ==
    /\ results' = [results EXCEPT !.criteria = Append(@, r)]
    /\ total_weighted_score' = RAdd(total_weighted_score, r.score)
    /\ pc' = next_pc

\* The salutation step, were the scorer to write to the rubric it reads.
salutation_writes_rubric ==
    /\ pc = "salutation"
    /\ Accumulate(_score_salutation(transcript), "content_structure")
    /\ rubric' = [rubric EXCEPT !.salutation.weight = 4]
    /\ UNCHANGED <<grammar_tool, transcript, duration_minutes, word_count,
                   total_weight, outcome, encode_result, check_result, prev>>

salutation ==
    /\ pc = "salutation"
    /\ Accumulate(_score_salutation(transcript), "content_structure")
    /\ UNCHANGED <<grammar_tool, rubric, transcript, duration_minutes, word_count,
                   total_weight, outcome, encode_result, check_result, prev>>

\* The content step, were a failed embedding call tried a second time.
content_structure_retrying ==
    /\ pc = "content_structure"
    /\ \E enc \in EncodeAnswers :
        /\ encode_result' = enc
        /\ IF enc.ok \/ encode_result.called
           THEN Accumulate(_score_content_structure(transcript, enc), "speech_rate")
           ELSE UNCHANGED <<pc, results, total_weighted_score>>
    /\ UNCHANGED <<grammar_tool, rubric, transcript, duration_minutes, word_count,
                   total_weight, outcome, check_result, prev>>

content_structure ==
    /\ pc = "content_structure"
    /\ \E enc \in EncodeAnswers :
        /\ encode_result' = enc
        /\ Accumulate(_score_content_structure(transcript, enc), "speech_rate")
    /\ UNCHANGED <<grammar_tool, rubric, transcript, duration_minutes, word_count,
                   total_weight, outcome, check_result, prev>>

\* word_count / duration_minutes raises ZeroDivisionError for a zero duration,
\* and nothing in score_transcript catches it.
speech_rate ==
    /\ pc = "speech_rate"
    /\ IF duration_minutes.n = 0
       THEN /\ outcome' = "ZeroDivisionError"
            /\ pc' = "idle"
            /\ UNCHANGED <<results, total_weighted_score>>
       ELSE LET r == _score_speech_rate(transcript, duration_minutes)
            IN  /\ results' = [wpm |-> r.wpm]
                              @@ [results EXCEPT !.criteria = Append(@, r)]
                /\ total_weighted_score' = RAdd(total_weighted_score, r.score)
                /\ pc' = "language_grammar"
                /\ UNCHANGED outcome
    /\ UNCHANGED <<grammar_tool, rubric, transcript, duration_minutes, word_count,
                   total_weight, encode_result, check_result, prev>>

language_grammar ==
    /\ pc = "language_grammar"
    /\ \E chk \in (IF grammar_tool = "None" THEN {NotCalled} ELSE CheckAnswers) :
        /\ check_result' = chk
        /\ Accumulate(_score_grammar(transcript, chk), "clarity")
    /\ UNCHANGED <<grammar_tool, rubric, transcript, duration_minutes, word_count,
                   total_weight, outcome, encode_result, prev>>

clarity ==
    /\ pc = "clarity"
    /\ Accumulate(_score_clarity(transcript), "engagement")
    /\ UNCHANGED <<grammar_tool, rubric, transcript, duration_minutes, word_count,
                   total_weight, outcome, encode_result, check_result, prev>>

engagement ==
    /\ pc = "engagement"
    /\ Accumulate(_score_engagement(transcript), "overall")
    /\ UNCHANGED <<grammar_tool, rubric, transcript, duration_minutes, word_count,
                   total_weight, outcome, encode_result, check_result, prev>>

\* Lines 121-124: the normalisation and the return.
overall ==
    /\ pc = "overall"
    /\ pc' = "idle"
    /\ IF total_weight = 0
       THEN /\ outcome' = "ZeroDivisionError"
            /\ UNCHANGED results
       ELSE /\ results' =
                [results EXCEPT !.overall_score =
                    RMul(RDiv(total_weighted_score, RInt(total_weight)), RInt(100))]
            /\ outcome' = "returned"
    /\ UNCHANGED <<grammar_tool, rubric, transcript, duration_minutes, word_count,
                   total_weighted_score, total_weight, encode_result, check_result,
                   prev>>

\* The steps inside a call.
Step ==
    \/ begin
    \/ salutation
    \/ content_structure
    \/ speech_rate
    \/ language_grammar
    \/ clarity
    \/ engagement
    \/ overall

Next ==
    \/ \E text \in Transcripts, duration \in Durations :
            score_transcript(text, duration, FALSE)
    \/ Step

Spec == Init /\ [][Next]_vars

\* Two calls in a row, the first one remembered in prev.
NextTwice ==
    \/ \E input \in TwiceInputs :
            score_transcript(input[1], input[2], TRUE)
    \/ Step

SpecTwice == Init /\ [][NextTwice]_vars

\* Two calls in a row on the content inputs, without a grammar checker.
NextContent ==
    \/ \E text \in ContentTranscripts :
            score_transcript(text, RInt(1), TRUE)
    \/ Step

SpecContent == InitWith({"None"}) /\ [][NextContent]_vars

\* Calls on the speech-rate inputs, without a grammar checker.
NextRate ==
    \/ \E text \in RateTranscripts, duration \in RateDurations :
            score_transcript(text, duration, FALSE)
    \/ Step

SpecRate == InitWith({"None"}) /\ [][NextRate]_vars

\* Calls on the salutation inputs, without a grammar checker.
NextSalutation ==
    \/ \E text \in SalutationTranscripts :
            score_transcript(text, RInt(1), FALSE)
    \/ Step

SpecSalutation == InitWith({"None"}) /\ [][NextSalutation]_vars

(***************************************************************************)
(* Properties                                                              *)
(***************************************************************************)
\* A call has ended: it returned its report, or an exception left it.
Ended == pc = "idle" /\ outcome # "none"
Returned == pc = "idle" /\ outcome = "returned"

\* The scorer in position i of the fixed order has appended its result.
Scored(i) == Len(results.criteria) >= i

RECURSIVE SumScores(_)
SumScores(criteria) ==
    IF Len(criteria) = 0 THEN RInt(0)
    ELSE RAdd(criteria[1].score, SumScores(Tail(criteria)))

\* C1: whatever the transcript and whatever the grammar checker and the
\* embedding model do, a call of score_transcript ends by returning a report
\* (never by raising) whose criteria are the six results in the fixed order.
C1_AlwaysReturnsSixCriteria ==
    Ended =>
        /\ outcome = "returned"
        /\ Len(results.criteria) = 6
        /\ results.criteria[1].name = "Salutation"
        /\ results.criteria[2].name = "Content & Structure"
        /\ results.criteria[3].name = "Speech Rate"
        /\ results.criteria[4].name = "Language & Grammar"
        /\ results.criteria[5].name = "Clarity"
        /\ results.criteria[6].name = "Engagement"

\* C2: in every returned report, for every transcript and every duration, each
\* criterion has 0 <= score <= max_score, max_score being the rubric weight
\* 5, 20, 10, 10, 15, 15 of that criterion.
C2_ScoresWithinMax ==
    Returned =>
        \A i \in 1..Len(results.criteria) :
            LET c == results.criteria[i]
            IN  /\ RLe(RInt(0), c.score)
                /\ RLe(c.score, c.max_score)
                /\ c.max_score = RInt(<<5, 20, 10, 10, 15, 15>>[i])

\* C3: the overall_score of every returned report lies in [0, 100] and is
\* 100 times the sum of the six criterion scores divided by 75, the total
\* weight computed at the start of the call.
C3_OverallScore ==
    Returned =>
        /\ RLe(RInt(0), results.overall_score)
        /\ RLe(results.overall_score, RInt(100))
        /\ total_weight = 75
        /\ RMul(results.overall_score, RInt(75))
               = RMul(RInt(100), SumScores(results.criteria))

\* C4: once the speech-rate scorer has been given a duration <= 0, the call
\* has not divided by it: no ZeroDivisionError has been raised and no
\* speech-rate result (wpm, score) has been computed from it.
C4_NonPositiveDurationNotDivided ==
    (RLe(duration_minutes, RInt(0))
        /\ (Ended \/ pc \in {"language_grammar", "clarity", "engagement", "overall"}))
    => /\ outcome # "ZeroDivisionError"
       /\ ~Scored(3)
       /\ "wpm" \notin DOMAIN results

GrammarUnavailable ==
    \/ grammar_tool = "None"
    \/ check_result.called /\ ~check_result.ok

\* The vocabulary component for u unique words out of n words: 4, 3.5, 3 or 2
\* as u/n exceeds 0.7, 0.5, 0.3 or none of them (u/n is 0 when n is 0).
VocabularyComponent(u, n) ==
    IF 10 * u > 7 * n THEN RInt(4)
    ELSE IF 10 * u > 5 * n THEN Rat(7, 2)
    ELSE IF 10 * u > 3 * n THEN RInt(3)
    ELSE RInt(2)

\* C6: when the grammar checker is unavailable, the Language & Grammar result
\* reports 0 grammar errors and its score is 6 (0.6 x weight) plus the
\* vocabulary component computed from the transcript's words.
C6_GrammarFallback ==
    (Scored(4) /\ GrammarUnavailable) =>
        LET g == results.criteria[4]
            words == findall_words(lower(transcript))
        IN  /\ g.details.grammar_errors = 0
            /\ g.score = RAdd(RInt(6),
                              VocabularyComponent(Cardinality(Range(words)), Len(words)))

\* A returned call on a transcript with words in which check raised.
C6_Witness ==
    /\ Returned
    /\ grammar_tool = "LanguageTool"
    /\ check_result.called /\ ~check_result.ok
    /\ word_count > 0

\* The input of the call before was the input of this call.
SameInputAsPrev ==
    /\ Len(prev) = 1
    /\ prev[1].transcript = transcript
    /\ prev[1].duration_minutes = duration_minutes

\* C7: a call leaves the engine as construction made it (the rubric and the
\* grammar tool), and a call that follows a call with the same transcript and
\* duration returns the same report, the collaborators answering alike.
C7_SameInputSameReport ==
    /\ rubric = RubricTable
    /\ (Returned /\ Len(prev) = 1) => grammar_tool = prev[1].grammar_tool
    /\ (Returned /\ SameInputAsPrev) => results = prev[1].results

\* The second of two returned calls on one input, both served by the
\* embedding model and the grammar checker.
C7_Witness ==
    /\ Returned /\ SameInputAsPrev
    /\ word_count > 0
    /\ encode_result.ok /\ check_result.ok /\ check_result.matches > 0

\* The semantic-similarity score a call used: the cosine, never below 0, or
\* 0.5 when the embedding failed.
SemanticScoreOf(enc) ==
    IF ~enc.ok THEN Rat(1, 2)
    ELSE IF enc.cos.n < 0 THEN RInt(0)
    ELSE enc.cos

\* C8: the Content & Structure score is
\* ((0.7 x elements/5 + (0.3 if has_structure else 0.1) + 0.2 x semantic) / 1.2) x 20,
\* that is (7 x elements + (15 or 5) + 10 x semantic) / 3; and of two calls
\* with the same has_structure and the same semantic score, the one that found
\* more element groups does not score lower.
C8_ContentMonotone ==
    Returned =>
        LET b == results.criteria[2]
            sb == SemanticScoreOf(encode_result)
        IN  /\ b.details.elements_found \in 0..5
            /\ RMul(b.score, RInt(3))
                   = RAdd(RInt(7 * b.details.elements_found
                               + (IF b.details.has_structure THEN 15 ELSE 5)),
                          RMul(RInt(10), sb))
            /\ Len(prev) = 1 =>
                   LET a == prev[1].results.criteria[2]
                       sa == SemanticScoreOf(prev[1].encode_result)
                   IN  (/\ a.details.has_structure = b.details.has_structure
                        /\ sa = sb
                        /\ a.details.elements_found < b.details.elements_found)
                       => RLe(a.score, b.score)

\* Two calls in a row with the same structure flag and semantic score, the
\* second with more element groups found.
C8_Witness ==
    /\ Returned /\ Len(prev) = 1
    /\ prev[1].results.criteria[2].details.has_structure
           = results.criteria[2].details.has_structure
    /\ SemanticScoreOf(prev[1].encode_result) = SemanticScoreOf(encode_result)
    /\ prev[1].results.criteria[2].details.elements_found + 2
           < results.criteria[2].details.elements_found

\* C9: for a duration > 0, with wpm = word_count / duration, the speech-rate
\* score is 10 x (1 - 0.5 x |wpm - 130| / 130) for 111 <= wpm <= 160,
\* 10 x (wpm / 111) x 0.7 below 111 and 10 x (160 / wpm) x 0.7 above 160; so
\* it is 10 at wpm = 130 and 0 for a transcript without words.
C9_SpeechRateRegimes ==
    (Scored(3) /\ duration_minutes.n > 0) =>
        LET r == results.criteria[3]
            \* wpm = p / q
            p == word_count * duration_minutes.d
            q == duration_minutes.n
            expected ==
                IF 111 * q <= p /\ p <= 160 * q
                THEN RSub(RInt(10), Rat(IF p >= 130 * q THEN p - 130 * q
                                                       ELSE 130 * q - p,
                                        26 * q))
                ELSE IF p < 111 * q THEN Rat(7 * p, 111 * q)
                ELSE Rat(1120 * q, p)
        IN  /\ r.wpm = Rat(p, q)
            /\ r.score = expected
            /\ p = 130 * q => r.score = RInt(10)
            /\ word_count = 0 => (r.wpm = RInt(0) /\ r.score = RInt(0))

\* A returned call at exactly 130 words per minute, scored 10.
C9_Witness ==
    /\ Returned
    /\ duration_minutes.n > 0
    /\ results.criteria[3].wpm = RInt(130)
    /\ results.criteria[3].score = RInt(10)

\* The greeting keywords of the rubric.
Greetings ==
    {"hi", "hello", "good morning", "good afternoon", "good evening", "good day"}

\* The first 50 whitespace-delimited tokens, joined and case-folded.
FirstFiftyFolded(text) == lower(join(" ", Take(split(text), 50)))

\* C10: with n the number of greeting keywords that occur as substrings of the
\* case-folded first 50 tokens, the salutation score is 5 for n >= 3, 4 for
\* n = 2, 3 for n = 1 and 0 for n = 0, and keywords_found lists exactly
\* those n keywords; a greeting after the 50th token does not count.
C10_SalutationLadder ==
    Scored(1) =>
        LET r == results.criteria[1]
            found == {kw \in Greetings : Contains(kw, FirstFiftyFolded(transcript))}
            n == Cardinality(found)
        IN  /\ r.score = (IF n >= 3 THEN RInt(5)
                          ELSE IF n = 2 THEN RInt(4)
                          ELSE IF n = 1 THEN RInt(3)
                          ELSE RInt(0))
            /\ Len(r.keywords_found) = n
            /\ Range(r.keywords_found) = found

\* A returned call whose only greetings come after the 50th token: score 0,
\* nothing found.
C10_Witness ==
    /\ Returned
    /\ Len(split(transcript)) > 50
    /\ Contains("hello", lower(transcript))
    /\ results.criteria[1].score = RInt(0)
    /\ results.criteria[1].keywords_found = <<>>

(***************************************************************************)
(* Clarity: the filler ratio and its four tiers                            *)
(***************************************************************************)
\* One filler among 10, 11, 20, 21, 50 and 51 words (ratios 10%, 9.09%, 5%,
\* 4.76%, 2%, 1.96%), fillers inside other words, in capitals, repeated, and
\* two-word phrases.
ClarityPads == {9, 10, 19, 20, 49, 50}
ClarityTranscripts ==
    {"",
     "we play cricket every day",
     "likely a number",
     "UM Well, You Know it is RIGHT",
     "hi meaning of it all",
     "you  know the kind\nof thing",
     "um um " \o Repeat("x", 18),
     "sort of basically actually uh " \o Repeat("x", 96)}
    \cup {"um " \o Repeat("x", k) : k \in ClarityPads}

NextClarity ==
    \/ \E text \in ClarityTranscripts : score_transcript(text, RInt(1), FALSE)
    \/ Step

SpecClarity == InitWith({"None"}) /\ [][NextClarity]_vars

\* The places of s at which sub occurs.
Occurrences(sub, s) ==
    {i \in 1..(Len(s) - Len(sub) + 1) : SubSeq(s, i, i + Len(sub) - 1) = sub}

RECURSIVE TotalOccurrences(_, _)
TotalOccurrences(phrases, s) ==
    IF Len(phrases) = 0 THEN 0
    ELSE Cardinality(Occurrences(phrases[1], s)) + TotalOccurrences(Tail(phrases), s)

\* C11: the Clarity result follows filler_ratio = filler_count / word_count
\* x 100 (0 when there are no words), filler_count being the occurrences of
\* all the configured filler phrases in the case-folded transcript: a ratio
\* under 2 scores 15, under 5 scores 12, under 10 scores 9, anything else 6;
\* without any filler occurrence the score is 15 and 'Fillers found' is None.
C11_ClarityTiers ==
    Scored(5) =>
        LET c == results.criteria[5]
            fc == TotalOccurrences(rubric.clarity.filler_words, lower(transcript))
            wc == word_count
            \* filler_ratio < limit, in whole numbers
            under(limit) == (wc = 0) \/ (100 * fc < limit * wc)
        IN  /\ c.name = "Clarity"
            /\ c.details.filler_words_count = fc
            /\ c.score = IF under(2) THEN RInt(15)
                         ELSE IF under(5) THEN RInt(12)
                         ELSE IF under(10) THEN RInt(9)
                         ELSE RInt(6)
            /\ (fc = 0) => (c.score = RInt(15) /\ c.details.fillers_found = "None")
            /\ (fc > 0) => (c.details.fillers_found # "None")

\* A call whose transcript repeats a filler and lands in the lowest tier.
C11_Witness ==
    /\ Returned
    /\ results.criteria[5].details.filler_words_count = 2
    /\ results.word_count = 20
    /\ results.criteria[5].score = RInt(6)

(***************************************************************************)
(* The six scorer blocks of score_transcript, run in any order             *)
(***************************************************************************)
\* The scorer of this name has run in the call: its result is in the list.
Ran(name) ==
    \E i \in 1..Len(results.criteria) : results.criteria[i].name = name

\* Where the call stands once one more scorer block has run: at the
\* normalisation when it was the sixth, among the scorer blocks otherwise.
AfterScorer == IF Len(results.criteria) = 5 THEN "overall" ELSE "salutation"

\* The salutation block, were it to assign the running total instead of
\* adding to it: harmless while the block runs first.
salutation_assigns_total ==
    /\ pc = "salutation" /\ ~Ran("Salutation")
    /\ LET r == _score_salutation(transcript)
       IN  /\ results' = [results EXCEPT !.criteria = Append(@, r)]
           /\ total_weighted_score' = r.score
           /\ pc' = AfterScorer
    /\ UNCHANGED <<grammar_tool, rubric, transcript, duration_minutes, word_count,
                   total_weight, outcome, encode_result, check_result, prev>>

\* Lines 89-92, whenever the block has not run yet.
salutation_any_order ==
    /\ pc = "salutation" /\ ~Ran("Salutation")
    /\ Accumulate(_score_salutation(transcript), AfterScorer)
    /\ UNCHANGED <<grammar_tool, rubric, transcript, duration_minutes, word_count,
                   total_weight, outcome, encode_result, check_result, prev>>

\* Lines 94-97.
content_structure_any_order ==
    /\ pc = "salutation" /\ ~Ran("Content & Structure")
    /\ \E enc \in EncodeAnswers :
        /\ encode_result' = enc
        /\ Accumulate(_score_content_structure(transcript, enc), AfterScorer)
    /\ UNCHANGED <<grammar_tool, rubric, transcript, duration_minutes, word_count,
                   total_weight, outcome, check_result, prev>>

\* Lines 99-104.
speech_rate_any_order ==
    /\ pc = "salutation" /\ ~Ran("Speech Rate")
    /\ IF duration_minutes.n = 0
       THEN /\ outcome' = "ZeroDivisionError"
            /\ pc' = "idle"
            /\ UNCHANGED <<results, total_weighted_score>>
       ELSE LET r == _score_speech_rate(transcript, duration_minutes)
            IN  /\ results' = [wpm |-> r.wpm]
                              @@ [results EXCEPT !.criteria = Append(@, r)]
                /\ total_weighted_score' = RAdd(total_weighted_score, r.score)
                /\ pc' = AfterScorer
                /\ UNCHANGED outcome
    /\ UNCHANGED <<grammar_tool, rubric, transcript, duration_minutes, word_count,
                   total_weight, encode_result, check_result, prev>>

\* Lines 106-109.
language_grammar_any_order ==
    /\ pc = "salutation" /\ ~Ran("Language & Grammar")
    /\ \E chk \in (IF grammar_tool = "None" THEN {NotCalled} ELSE CheckAnswers) :
        /\ check_result' = chk
        /\ Accumulate(_score_grammar(transcript, chk), AfterScorer)
    /\ UNCHANGED <<grammar_tool, rubric, transcript, duration_minutes, word_count,
                   total_weight, outcome, encode_result, prev>>

\* Lines 111-114.
clarity_any_order ==
    /\ pc = "salutation" /\ ~Ran("Clarity")
    /\ Accumulate(_score_clarity(transcript), AfterScorer)
    /\ UNCHANGED <<grammar_tool, rubric, transcript, duration_minutes, word_count,
                   total_weight, outcome, encode_result, check_result, prev>>

\* Lines 116-119.
engagement_any_order ==
    /\ pc = "salutation" /\ ~Ran("Engagement")
    /\ Accumulate(_score_engagement(transcript), AfterScorer)
    /\ UNCHANGED <<grammar_tool, rubric, transcript, duration_minutes, word_count,
                   total_weight, outcome, encode_result, check_result, prev>>

\* One input, scored again and again.
AnyOrderInputs ==
    {<<"Hi, I am Ravi and I love chess, um.", Rat(1, 2)>>}

\* The first call runs as the code runs it and is remembered in prev as the
\* reference; every later call runs its six scorer blocks in any order.
NextAnyOrder ==
    \/ \E input \in AnyOrderInputs :
            score_transcript(input[1], input[2], Len(prev) = 0)
    \/ begin
    \/ Len(prev) = 0 /\ salutation
    \/ Len(prev) = 0 /\ content_structure
    \/ Len(prev) = 0 /\ speech_rate
    \/ Len(prev) = 0 /\ language_grammar
    \/ Len(prev) = 0 /\ clarity
    \/ Len(prev) = 0 /\ engagement
    \/ Len(prev) = 1 /\ salutation_any_order
    \/ Len(prev) = 1 /\ content_structure_any_order
    \/ Len(prev) = 1 /\ speech_rate_any_order
    \/ Len(prev) = 1 /\ language_grammar_any_order
    \/ Len(prev) = 1 /\ clarity_any_order
    \/ Len(prev) = 1 /\ engagement_any_order
    \/ overall

SpecAnyOrder == InitWith({"None"}) /\ [][NextAnyOrder]_vars

\* The names of a list of criterion results, in the order of the list.
NamesOf(criteria) == [i \in 1..Len(criteria) |-> criteria[i].name]

FixedOrder ==
    <<"Salutation", "Content & Structure", "Speech Rate", "Language & Grammar",
      "Clarity", "Engagement">>

C13_OneCallNoRetry ==
    [][ /\ pc = "idle" => (encode_result' = NotCalled /\ check_result' = NotCalled)
        /\ pc = "content_structure" =>
              /\ ~encode_result.called
              /\ encode_result'.called
              /\ pc' = "speech_rate"
              /\ Len(results'.criteria) = 2
              /\ ~encode_result'.ok =>
                    results'.criteria[2].details.semantic_similarity = 5000
        /\ pc \notin {"idle", "content_structure"} => encode_result' = encode_result
        /\ pc = "language_grammar" =>
              /\ ~check_result.called
              /\ check_result'.called = (grammar_tool # "None")
              /\ pc' = "clarity"
              /\ Len(results'.criteria) = 4
              /\ ~check_result'.ok =>
                    results'.criteria[4].details.grammar_errors = 0
        /\ pc \notin {"idle", "language_grammar"} => check_result' = check_result
      ]_vars

\* A returned call in which both collaborators were asked and both failed.
C13_Witness ==
    /\ Returned
    /\ encode_result.called /\ ~encode_result.ok
    /\ check_result.called /\ ~check_result.ok
    /\ results.criteria[2].details.semantic_similarity = 5000
    /\ results.criteria[4].details.grammar_errors = 0
====
